---- MODULE Spec2Model ----
(***************************************************************************)
(* A model of nukecli.py: the class resolver getNukeNode, the identifier   *)
(* generator generateNodeID, the compiler parseCLI and the command-line    *)
(* entry point.                                                            *)
(*                                                                         *)
(* Strings the code inspects character by character (command names and     *)
(* plugin class names) are sequences of one-character strings.  Tokens     *)
(* the code only compares whole or copies (variable names, paths, frame    *)
(* ranges, knob words) are TLA+ strings.                                   *)
(***************************************************************************)
EXTENDS Integers, Sequences, FiniteSets, TLC

VARIABLES allPlugins, cli, cmdStack, execNodes, varMap, pc, exc,
          parsedCmd, stdout, stderr, tclCalls, inString, resolved

vars == <<allPlugins, cli, cmdStack, execNodes, varMap, pc, exc,
          parsedCmd, stdout, stderr, tclCalls, inString, resolved>>

(***************************************************************************)
(* Bounds of the model.                                                    *)
(***************************************************************************)
MaxCmds == 3
MaxCrc == 0
MaxNameLen == 2
MaxCatalog == 3

(***************************************************************************)
(* Characters: the ASCII digits and letters in ASCII order, which is the   *)
(* order Python 2 compares str values in.                                  *)
(***************************************************************************)
AsciiOrder ==
    << "0", "1", "2", "3", "4", "5", "6", "7", "8", "9",
       "A", "B", "C", "D", "E", "F", "G", "H", "I", "J", "K", "L", "M",
       "N", "O", "P", "Q", "R", "S", "T", "U", "V", "W", "X", "Y", "Z",
       "a", "b", "c", "d", "e", "f", "g", "h", "i", "j", "k", "l", "m",
       "n", "o", "p", "q", "r", "s", "t", "u", "v", "w", "x", "y", "z" >>

Ord(c) == CHOOSE k \in 1..Len(AsciiOrder) : AsciiOrder[k] = c

IsDigit(c) == Ord(c) <= 10

IsUpper(c) == Ord(c) > 10 /\ Ord(c) <= 36

\* re.IGNORECASE compares characters with their case folded.
Lower(c) == IF IsUpper(c) THEN AsciiOrder[Ord(c) + 26] ELSE c

LowerStr(s) == [k \in 1..Len(s) |-> Lower(s[k])]

\* Python's str < str: the first differing character decides, a proper
\* prefix is smaller.
StrLess(a, b) ==
    \/ /\ Len(a) < Len(b)
       /\ \A k \in 1..Len(a) : a[k] = b[k]
    \/ \E k \in 1..Len(a) :
          /\ k <= Len(b)
          /\ \A j \in 1..(k - 1) : a[j] = b[j]
          /\ Ord(a[k]) < Ord(b[k])

\* matches.sort(); matches[-1]
SortedLast(matches) ==
    CHOOSE m \in matches : \A o \in matches : o = m \/ StrLess(o, m)

\* re.compile(r'^%s\d?$' % inString [, flags=re.IGNORECASE]).match(item),
\* for an inString of letters and digits (no regular-expression operator).
VerMatch(s, item, ignoreCase) ==
    LET a == IF ignoreCase THEN LowerStr(s) ELSE s
        b == IF ignoreCase THEN LowerStr(item) ELSE item
    IN  \/ b = a
        \/ /\ Len(b) = Len(a) + 1
           /\ SubSeq(b, 1, Len(a)) = a
           /\ IsDigit(b[Len(b)])

\* re.compile(r'^%s' % inString, flags=re.IGNORECASE).search(item)
PartialMatch(s, item) ==
    /\ Len(item) >= Len(s)
    /\ SubSeq(LowerStr(item), 1, Len(s)) = LowerStr(s)

Resolved(node) == [ok |-> TRUE, node |-> node, msg |-> ""]

\* raise ValueError(...), with the message that tells the two failures apart
ValueError(msg) == [ok |-> FALSE, node |-> <<>>, msg |-> msg]

\* Variant: the case-sensitive tier is left out.
getNukeNodeNoExactTier(s, plugins) ==
    LET nocase == {p \in plugins : VerMatch(s, p, TRUE)}
        partial == {p \in plugins : PartialMatch(s, p)}
    IN  IF nocase # {} THEN Resolved(SortedLast(nocase))
        ELSE IF partial # {}
             THEN IF Cardinality(partial) > 1
                  THEN ValueError("partially matched")
                  ELSE Resolved(CHOOSE p \in partial : TRUE)
        ELSE ValueError("could not be matched")

\* The catalog is a list in the code; it is a set here (no class is listed
\* twice), and the result does not depend on its order.
getNukeNode(s, plugins) ==
    LET exact == {p \in plugins : VerMatch(s, p, FALSE)}
        nocase == {p \in plugins : VerMatch(s, p, TRUE)}
        partial == {p \in plugins : PartialMatch(s, p)}
    IN  IF exact # {} THEN Resolved(SortedLast(exact))
        ELSE IF nocase # {} THEN Resolved(SortedLast(nocase))
        ELSE IF partial # {}
             THEN IF Cardinality(partial) > 1
                  THEN ValueError("partially matched")
                  ELSE Resolved(CHOOSE p \in partial : TRUE)
        ELSE ValueError("could not be matched")

(***************************************************************************)
(* Generated identifiers.  crc32 of varName + str(random.random()) is a    *)
(* signed 32-bit integer in Python 2, and the random draw makes it a       *)
(* nondeterministic value: the actions draw it from CrcValues.  The        *)
(* identifier is 'N' followed by the decimal text with '-' replaced by     *)
(* '_'.                                                                    *)
(***************************************************************************)
CrcValues == (0 - 1)..MaxCrc

generateNodeID(varName, crc) ==
    IF crc < 0
    THEN [prefix |-> "N", sign |-> "_", digits |-> 0 - crc]
    ELSE [prefix |-> "N", sign |-> "", digits |-> crc]

\* The value '0' that varMap starts with under the name '0'.
ZeroRef == [prefix |-> "", sign |-> "", digits |-> 0]

(***************************************************************************)
(* Statements of the Tcl program, one record per format string.            *)
(***************************************************************************)
\* 'set %s [stack 0]' % varID
CaptureStmt(varID) == [op |-> "set", id |-> varID, text |-> "[stack 0]"]

\* 'push $%s' % varID
PushStmt(varID) == [op |-> "push", id |-> varID, text |-> "$"]

\* 'push 0'
PushZeroStmt == [op |-> "push", id |-> ZeroRef, text |-> "0"]

\* 'script_save {%s}' % saveFile
SaveStmt(saveFile) == [op |-> "script_save", path |-> saveFile]

\* ' '.join(args) if args else '' : the tokens with a blank between them
RECURSIVE JoinSpace(_)
JoinSpace(a) ==
    IF a = <<>> THEN <<>>
    ELSE IF Len(a) = 1 THEN a
    ELSE <<Head(a), " ">> \o JoinSpace(Tail(a))

\* '%s {%s}' % (node, nodeArgs)
NodeStmt(node, a) ==
    [op |-> "create", node |-> node, nodeArgs |-> JoinSpace(a)]

\* 'execute $%s %s' % (node, range)
ExecRangeStmt(node, range) ==
    [op |-> "execute", id |-> node, range |-> range, refs |-> <<>>]

\* 'execute $%s [value $%s.first]-[value $%s.last]' % (node, node, node)
ExecKnobStmt(node) ==
    [op |-> "execute", id |-> node,
     range |-> "[value $%s.first]-[value $%s.last]", refs |-> <<node, node>>]

\* Variant: the frame range is never embedded.
ExecStmtKnobsOnly(req) == ExecKnobStmt(req.id)

ExecStmt(req) ==
    IF req.hasRange THEN ExecRangeStmt(req.id, req.range)
    ELSE ExecKnobStmt(req.id)

\* for node, range in execNodes: cmdStack.append(...)
RECURSIVE ExecStmts(_)
ExecStmts(reqs) ==
    IF reqs = <<>> THEN <<>>
    ELSE <<ExecStmt(Head(reqs))>> \o ExecStmts(Tail(reqs))

\* ';'.join(cmdStack) + ';' : every statement followed by the terminator,
\* and the terminator alone for an empty list.
RECURSIVE JoinStmts(_)
JoinStmts(stmts) ==
    IF stmts = <<>> THEN <<>>
    ELSE IF Len(stmts) = 1 THEN <<Head(stmts)>>
    ELSE <<Head(stmts), ";">> \o JoinStmts(Tail(stmts))

TclString(stmts) == JoinStmts(stmts) \o <<";">>

\* The statements of a program string, read back between the terminators.
Statements(prog) ==
    [k \in 1..(Len(prog) \div 2) |-> prog[2 * k - 1]]

NoProgram == <<>>

(***************************************************************************)
(* The input of parseCLI after rawInput.split(' -') and argRE.findall:     *)
(* one token list per segment, the command name first.  Every segment     *)
(* holds a token (parseLine raises IndexError on a segment of blanks,      *)
(* which is left out).                                                     *)
(***************************************************************************)
kwSet == <<"s", "e", "t">>
kwPush == <<"p", "u", "s", "h">>
kwExecute == <<"e", "x", "e", "c", "u", "t", "e">>
kwSave == <<"s", "a", "v", "e">>

clsBlur == <<"B", "l", "u", "r">>
clsBlur2 == <<"B", "l", "u", "r", "2">>
clsGrade == <<"G", "r", "a", "d", "e">>
clsSetup == <<"S", "e", "t", "u", "p">>

Lines ==
    { <<kwSet, "x">>, <<kwSet, "0">>, <<kwSet>>,
      <<kwPush, "x">>, <<kwPush, "0">>, <<kwPush, "x", "0">>,
      <<kwExecute>>, <<kwExecute, "1-10">>, <<kwExecute, "1-10", "x">>,
      <<kwSave>>, <<kwSave, "/new.nk">>, <<kwSave, "/old.nk">>,
      <<kwSave, "/old.nk", "force">>, <<kwSave, "/old.nk", "x">>,
      <<kwSave, "/dir", "force">>,
      <<<<"b", "l", "u", "r">>, "size", "2">> }

\* pynuke.getPluginList(...): the host's classes, one of them a plugin whose
\* name starts like the keyword set; none starts like push.
Catalogs == { {clsBlur, clsBlur2, clsGrade, clsSetup} }

\* The file system os.path.isdir and os.path.exists read.
isdir(path) == path \in {"/dir"}
exists(path) == path \in {"/dir", "/old.nk"}

\* parseLine: parsedLine.pop(0) and the rest
lineCmd(line) == Head(line)
lineArgs(line) == Tail(line)


(***************************************************************************)
(* parseCLI, one action per branch of the loop body, and the entry point.  *)
(* cli holds the segments the for loop has taken so far; every action of   *)
(* the loop takes the next one, any of Lines, and Return is the loop       *)
(* finding no further segment.                                             *)
(* pc: "loop" inside parseCLI's for loop; "else" after parseCLI returned;  *)
(* "printed" after the program was printed; "except" in the ValueError     *)
(* handler; "uncaught" when another exception leaves the script; "done".   *)
(***************************************************************************)
Out(text, arg) == [text |-> text, arg |-> arg, prog |-> NoProgram]

Init ==
    /\ allPlugins \in Catalogs
    /\ cli = <<>>
    /\ cmdStack = <<>>
    /\ execNodes = <<>>
    /\ varMap = [n \in {"0"} |-> ZeroRef]
    /\ pc = "loop"
    /\ exc = "none"
    /\ parsedCmd = NoProgram
    /\ stdout = <<>>
    /\ stderr = <<>>
    /\ tclCalls = <<>>
    /\ inString = <<>>
    /\ resolved = Resolved(<<>>)

InLoop == pc = "loop" /\ Len(cli) < MaxCmds

\* An exception leaves parseCLI: the handler of the entry point is next.
Raise(kind) ==
    /\ exc' = kind
    /\ pc' = IF kind = "ValueError" THEN "except" ELSE "uncaught"
    /\ UNCHANGED <<allPlugins, cmdStack, execNodes, varMap, parsedCmd,
                   stdout, stderr, tclCalls, inString, resolved>>

\* The loop body ended (or hit continue) with these statements and output.
Continue(stack, out) ==
    /\ cmdStack' = stack
    /\ stdout' = out
    /\ UNCHANGED <<allPlugins, pc, exc, parsedCmd, stderr, tclCalls,
                   inString, resolved>>

\* The branch of the if/elif chain a segment takes.
IsSet(l) == lineCmd(l) = kwSet /\ Len(lineArgs(l)) = 1
IsPush(l) ==
    ~IsSet(l) /\ lineCmd(l) = kwPush /\ Len(lineArgs(l)) = 1
IsExecute(l) ==
    ~IsSet(l) /\ ~IsPush(l) /\ lineCmd(l) = kwExecute
IsSave(l) ==
    ~IsSet(l) /\ ~IsPush(l) /\ ~IsExecute(l) /\ lineCmd(l) = kwSave
IsNode(l) ==
    ~IsSet(l) /\ ~IsPush(l) /\ ~IsExecute(l) /\ ~IsSave(l)

\* Variant: the table is rebuilt with the new entry alone.
BindAlone(map, varName, varID) == [n \in {varName} |-> varID]

\* varMap[varName] = varID
Bind(map, varName, varID) ==
    [n \in DOMAIN map \cup {varName} |->
        IF n = varName THEN varID ELSE map[n]]

DoSet ==
    /\ InLoop
    /\ \E l \in Lines, crc \in CrcValues :
          LET varName == lineArgs(l)[1]
              varID == generateNodeID(varName, crc)
          IN  /\ IsSet(l)
              /\ cli' = Append(cli, l)
              /\ varMap' = Bind(varMap, varName, varID)
              /\ Continue(Append(cmdStack, CaptureStmt(varID)), stdout)
    /\ UNCHANGED execNodes

\* Variant: the lookup falls back to '0', as varMap.get(varName, '0').
LookupWithDefault(map, varName) ==
    [found |-> TRUE,
     id |-> IF varName \in DOMAIN map THEN map[varName] ELSE ZeroRef]

\* varID = varMap[varName], which raises KeyError for a missing name
Lookup(map, varName) ==
    IF varName \in DOMAIN map
    THEN [found |-> TRUE, id |-> map[varName]]
    ELSE [found |-> FALSE, id |-> ZeroRef]

\* Variant: the test for the name '0' is left out.
PushOfNoZeroTest(varName, varID) == PushStmt(varID)

\* The statement a push appends.
PushOf(varName, varID) ==
    IF varName # "0" THEN PushStmt(varID) ELSE PushZeroStmt

DoPush ==
    /\ InLoop
    /\ \E l \in Lines :
          LET varName == lineArgs(l)[1]
              varID == Lookup(varMap, varName)
          IN  /\ IsPush(l)
              /\ cli' = Append(cli, l)
              /\ IF varID.found
                 THEN Continue(Append(cmdStack, PushOf(varName, varID.id)),
                               stdout)
                 ELSE Raise("KeyError")
    /\ UNCHANGED <<execNodes, varMap>>

\* (varID, args[0] if args else None)
ExecRequest(varID, a) ==
    IF a # <<>> THEN [id |-> varID, hasRange |-> TRUE, range |-> a[1]]
    ELSE [id |-> varID, hasRange |-> FALSE, range |-> ""]

DoExecute ==
    /\ InLoop
    /\ \E l \in Lines, crc \in CrcValues :
          LET varID == generateNodeID(lineCmd(l), crc)
          IN  /\ IsExecute(l)
              /\ cli' = Append(cli, l)
              /\ execNodes' = Append(execNodes,
                                     ExecRequest(varID, lineArgs(l)))
              /\ Continue(Append(cmdStack, CaptureStmt(varID)), stdout)
    /\ UNCHANGED varMap

\* The guard of the save branch: what it prints, and whether it appends.
SaveWarnings(saveFile, rest) ==
    IF isdir(saveFile)
    THEN <<Out("WARNING: Script save path is a directory. Ignoring.",
               saveFile)>>
    ELSE IF exists(saveFile)
    THEN <<Out("WARNING: Script save path already exists", saveFile)>> \o
         (IF rest = <<>>
          THEN <<Out("WARNING: No force command found. Skipping script save.",
                     "")>>
          ELSE IF rest[1] # "force"
          THEN <<Out("WARNING: Invalid 'save' syntax. Skipping script save.",
                     "")>>
          ELSE <<Out("Forcing script save.", "")>>)
    ELSE <<>>

\* Variant: any argument after the path forces the save.
SaveAppendsAnyArg(saveFile, rest) ==
    IF isdir(saveFile) THEN FALSE
    ELSE IF exists(saveFile) THEN rest # <<>>
    ELSE TRUE

SaveAppends(saveFile, rest) ==
    IF isdir(saveFile) THEN FALSE
    ELSE IF exists(saveFile)
    THEN IF rest = <<>> THEN FALSE
         ELSE IF rest[1] # "force" THEN FALSE
         ELSE TRUE
    ELSE TRUE

DoSave ==
    /\ InLoop
    /\ \E l \in Lines :
          /\ IsSave(l)
          /\ cli' = Append(cli, l)
          /\ IF lineArgs(l) = <<>>
             THEN Raise("IndexError")
             ELSE LET saveFile == Head(lineArgs(l))
                      rest == Tail(lineArgs(l))
                  IN  Continue(IF SaveAppends(saveFile, rest)
                               THEN Append(cmdStack, SaveStmt(saveFile))
                               ELSE cmdStack,
                               stdout \o SaveWarnings(saveFile, rest))
    /\ UNCHANGED <<execNodes, varMap>>

DoNode ==
    /\ InLoop
    /\ \E l \in Lines :
          LET node == getNukeNode(lineCmd(l), allPlugins)
          IN  /\ IsNode(l)
              /\ cli' = Append(cli, l)
              /\ IF node.ok
                 THEN Continue(Append(cmdStack,
                                      NodeStmt(node.node, lineArgs(l))),
                               stdout)
                 ELSE Raise("ValueError")
    /\ UNCHANGED <<execNodes, varMap>>

\* Variant: the execute statements are put in front of the others.
ProgramExecFirst(stack, reqs) == ExecStmts(reqs) \o stack

\* After the loop: the deferred execute statements, the join, the return.
Program(stack, reqs) == stack \o ExecStmts(reqs)

Return ==
    /\ pc = "loop"
    /\ cmdStack' = Program(cmdStack, execNodes)
    /\ parsedCmd' = TclString(cmdStack')
    /\ pc' = "else"
    /\ UNCHANGED <<allPlugins, cli, execNodes, varMap, exc, stdout,
                   stderr, tclCalls, inString, resolved>>

\* Variant: the host call is not inside the else branch, so it also runs
\* after the handler.
PrintTraceThenTcl ==
    /\ pc = "except"
    /\ stderr' = Append(stderr, exc)
    /\ pc' = "printed"
    /\ UNCHANGED <<allPlugins, cli, cmdStack, execNodes, varMap, exc,
                   parsedCmd, stdout, tclCalls, inString, resolved>>

\* except ValueError: traceback.print_exc()
PrintTrace ==
    /\ pc = "except"
    /\ stderr' = Append(stderr, exc)
    /\ pc' = "done"
    /\ UNCHANGED <<allPlugins, cli, cmdStack, execNodes, varMap, exc,
                   parsedCmd, stdout, tclCalls, inString, resolved>>

\* Any other exception is not handled: the interpreter prints the
\* traceback and the script ends.
Uncaught ==
    /\ pc = "uncaught"
    /\ stderr' = Append(stderr, exc)
    /\ pc' = "done"
    /\ UNCHANGED <<allPlugins, cli, cmdStack, execNodes, varMap, exc,
                   parsedCmd, stdout, tclCalls, inString, resolved>>

\* else: the three print statements
PrintProgram ==
    /\ pc = "else"
    /\ stdout' = stdout \o
          << Out("=============== TCL COMMAND STRING ===============", ""),
             [text |-> "%s", arg |-> "", prog |-> parsedCmd],
             Out("==================================================", "") >>
    /\ pc' = "printed"
    /\ UNCHANGED <<allPlugins, cli, cmdStack, execNodes, varMap, exc,
                   parsedCmd, stderr, tclCalls, inString, resolved>>

\* nuke.tcl("""%s""" % parsedCmd)
CallTcl ==
    /\ pc = "printed"
    /\ tclCalls' = Append(tclCalls, parsedCmd)
    /\ pc' = "done"
    /\ UNCHANGED <<allPlugins, cli, cmdStack, execNodes, varMap, exc,
                   parsedCmd, stdout, stderr, inString, resolved>>

Next ==
    \/ DoSet
    \/ DoPush
    \/ DoExecute
    \/ DoSave
    \/ DoNode
    \/ Return
    \/ PrintTrace
    \/ Uncaught
    \/ PrintProgram
    \/ CallTcl

Spec == Init /\ [][Next]_vars

(***************************************************************************)
(* getNukeNode on its own: every catalog of at most MaxCatalog names and   *)
(* every candidate.  A name is a word of at most MaxNameLen letters, an    *)
(* upper-case or lower-case initial followed by lower-case letters, with   *)
(* or without a version digit.                                             *)
(***************************************************************************)
ResolverInitials == {"B", "b"}
ResolverVersions == {<<>>, <<"2">>, <<"3">>}

Word(initial, n) == <<initial>> \o [k \in 1..(n - 1) |-> "l"]

Names ==
    {Word(c, n) \o v : c \in ResolverInitials, n \in 1..MaxNameLen,
                       v \in ResolverVersions}

RECURSIVE CatalogsUpTo(_)
CatalogsUpTo(k) ==
    IF k = 0 THEN {{}}
    ELSE CatalogsUpTo(k - 1) \cup
         {c \cup {n} : c \in CatalogsUpTo(k - 1), n \in Names}

InitResolve ==
    /\ allPlugins \in CatalogsUpTo(MaxCatalog)
    /\ inString \in Names
    /\ resolved = Resolved(<<>>)
    /\ pc = "resolve"
    /\ cli = <<>>
    /\ cmdStack = <<>>
    /\ execNodes = <<>>
    /\ varMap = [n \in {"0"} |-> ZeroRef]
    /\ exc = "none"
    /\ parsedCmd = NoProgram
    /\ stdout = <<>>
    /\ stderr = <<>>
    /\ tclCalls = <<>>

Resolve ==
    /\ pc = "resolve"
    /\ resolved' = getNukeNode(inString, allPlugins)
    /\ pc' = "resolved"
    /\ UNCHANGED <<allPlugins, cli, cmdStack, execNodes, varMap, exc,
                   parsedCmd, stdout, stderr, tclCalls, inString>>

NextResolve == Resolve

SpecResolve == InitResolve /\ [][NextResolve]_vars

(***************************************************************************)
(* Vocabulary of the properties, read off the input cli.                   *)
(***************************************************************************)
\* Segment n was compiled without raising.
Processed(n) == n < Len(cli) \/ exc = "none"

SaveWithPath(l) == l[1] = kwSave /\ Len(l) >= 2

\* The path is no existing directory, and it does not exist or 'force'
\* follows it.
SaveCondition(l) ==
    /\ ~isdir(l[2])
    /\ \/ ~exists(l[2])
       \/ Len(l) >= 3 /\ l[3] = "force"

\* A compiled command stands for one statement, a skipped save for none.
EmitsStmt(l) == IF SaveWithPath(l) THEN SaveCondition(l) ELSE TRUE

\* The position in the statement sequence of the statement of segment n.
StmtPos(n) == Cardinality({m \in 1..n : EmitsStmt(cli[m])})

ExecLineNos == {n \in 1..Len(cli) : cli[n][1] = kwExecute}

\* The segment of the k-th -execute command.
NthExec(k) ==
    CHOOSE n \in ExecLineNos : Cardinality({m \in ExecLineNos : m <= n}) = k

UndefinedPush(n) ==
    /\ cli[n][1] = kwPush
    /\ Len(cli[n]) = 2
    /\ cli[n][2] # "0"
    /\ ~ \E m \in 1..(n - 1) : cli[m] = <<kwSet, cli[n][2]>>

Malformed(l) ==
    \/ l[1] \in {kwSet, kwPush} /\ Len(l) # 2
    \/ l[1] = kwExecute /\ Len(l) > 2
    \/ l[1] = kwSave /\ Len(l) = 1

(***************************************************************************)
(* C1: in every program parseCLI returns, the execute statements are the   *)
(* last statements, after every node-creation, capture, push and           *)
(* script_save statement, and the k-th of them names the identifier        *)
(* captured at the k-th -execute command of the input.                     *)
(***************************************************************************)
C1_ExecuteLastInOrder ==
    parsedCmd # NoProgram =>
        LET stmts == Statements(parsedCmd)
            ne == Cardinality(ExecLineNos)
            first == Len(stmts) - ne
        IN  /\ first >= ne
            /\ \A j \in 1..first : stmts[j].op # "execute"
            /\ \A k \in 1..ne :
                  /\ stmts[first + k].op = "execute"
                  /\ stmts[first + k].id = stmts[StmtPos(NthExec(k))].id

\* Two -execute commands, the second with another identifier, then a node.
C1_Witness ==
    /\ parsedCmd # NoProgram
    /\ Len(cli) = 3
    /\ ExecLineNos = {1, 2}
    /\ Statements(parsedCmd)[3].op = "create"
    /\ Statements(parsedCmd)[4].id # Statements(parsedCmd)[5].id

(***************************************************************************)
(* C2: a -save command with a path never raises; it stands for exactly one *)
(* script_save statement, at its position in the statement sequence, if    *)
(* the path is no existing directory and either does not exist or is       *)
(* followed by 'force', and for no statement otherwise; the loop goes on.  *)
(***************************************************************************)
C2_SaveGuard ==
    /\ \A n \in 1..Len(cli) :
          SaveWithPath(cli[n]) =>
             /\ Processed(n)
             /\ SaveCondition(cli[n]) =>
                   cmdStack[StmtPos(n)] = SaveStmt(cli[n][2])
    /\ Cardinality({j \in 1..Len(cmdStack) : cmdStack[j].op = "script_save"})
          = Cardinality({n \in 1..Len(cli) :
                            SaveWithPath(cli[n]) /\ SaveCondition(cli[n])})
    /\ pc = "loop" => Len(cmdStack) = StmtPos(Len(cli))

\* A skipped save of an existing file, a forced one, then a node.
C2_Witness ==
    /\ pc = "loop"
    /\ Len(cli) = 3
    /\ cli[1] = <<kwSave, "/old.nk">>
    /\ cli[2] = <<kwSave, "/old.nk", "force">>
    /\ cmdStack[1] = SaveStmt("/old.nk")
    /\ Len(cmdStack) = 2
    /\ cmdStack[2].op = "create"

(***************************************************************************)
(* C3: a push of a name other than '0' that no earlier set established     *)
(* raises KeyError at once: it is the last segment taken, no program is    *)
(* returned and the host is not called.                                    *)
(***************************************************************************)
C3_UndefinedPushAborts ==
    \A n \in 1..Len(cli) :
        UndefinedPush(n) =>
           /\ n = Len(cli)
           /\ exc = "KeyError"
           /\ pc \in {"uncaught", "done"}
           /\ parsedCmd = NoProgram
           /\ tclCalls = <<>>

\* The push follows a compiled command that set another name.
C3_Witness ==
    /\ pc = "done"
    /\ Len(cli) = 2
    /\ cli[1] = <<kwSet, "0">>
    /\ UndefinedPush(2)
    /\ Len(cmdStack) = 1

(***************************************************************************)
(* C4: a set or push with no or several arguments, an execute with several *)
(* arguments and a save without argument abort the compilation: the        *)
(* segment is the last one taken, an exception is raised and no program is *)
(* returned.                                                               *)
(***************************************************************************)
C4_MalformedAborts ==
    \A n \in 1..Len(cli) :
        Malformed(cli[n]) =>
           /\ n = Len(cli)
           /\ exc # "none"
           /\ parsedCmd = NoProgram

(***************************************************************************)
(* C5: a '-push 0' command never raises and stands for the statement       *)
(* 'push 0', whatever came before it, a '-set 0' included.                 *)
(***************************************************************************)
C5_PushZero ==
    \A n \in 1..Len(cli) :
        cli[n] = <<kwPush, "0">> =>
           /\ Processed(n)
           /\ cmdStack[StmtPos(n)] = PushZeroStmt

\* '-set 0' rebound the name '0' before the push.
C5_Witness ==
    /\ Len(cli) = 2
    /\ cli[1] = <<kwSet, "0">>
    /\ cli[2] = <<kwPush, "0">>
    /\ varMap["0"] # ZeroRef
    /\ cmdStack[2] = PushZeroStmt

(***************************************************************************)
(* C6 as stated: no step changes or removes a mapping of the Variable      *)
(* Table.                                                                  *)
(***************************************************************************)
C6_NeverUpdated ==
    [][\A n \in DOMAIN varMap :
          n \in DOMAIN varMap' /\ varMap'[n] = varMap[n]]_vars

(***************************************************************************)
(* C6 amended: only a set command changes the Variable Table; no name is   *)
(* ever removed, and the identifier of a name changes only at a set        *)
(* command for that very name, '0' included.                               *)
(***************************************************************************)
C6_OnlySetRebinds ==
    [][/\ varMap' # varMap =>
             /\ Len(cli') = Len(cli) + 1
             /\ IsSet(cli'[Len(cli')])
       /\ \A n \in DOMAIN varMap :
             /\ n \in DOMAIN varMap'
             /\ varMap'[n] # varMap[n] => cli'[Len(cli')] = <<kwSet, n>>]_vars

\* The second '-set x' replaced the identifier of the first.
C6_Witness ==
    /\ pc = "loop"
    /\ Len(cli) = 2
    /\ cli[1] = <<kwSet, "x">>
    /\ cli[2] = <<kwSet, "x">>
    /\ cmdStack[1].id # cmdStack[2].id
    /\ varMap["x"] = cmdStack[2].id

(***************************************************************************)
(* C7: the identifiers of the capture statements, one per set or execute   *)
(* command, are pairwise distinct.                                         *)
(***************************************************************************)
C7_DistinctIds ==
    \A i, j \in 1..Len(cmdStack) :
        (i < j /\ cmdStack[i].op = "set" /\ cmdStack[j].op = "set")
           => cmdStack[i].id # cmdStack[j].id

(***************************************************************************)
(* C8 as stated: a candidate that is a catalog entry resolves to that      *)
(* entry.                                                                  *)
(***************************************************************************)
C8_ExactMatchWins ==
    (pc = "resolved" /\ inString \in allPlugins)
       => resolved = Resolved(inString)

(***************************************************************************)
(* C8 amended: a candidate that is a catalog entry resolves to that entry, *)
(* whatever a case-insensitive or partial match would pick, unless the     *)
(* catalog also holds the candidate followed by one digit; it then         *)
(* resolves to the one of those with the highest digit.                    *)
(***************************************************************************)
C8_ExactOrHighestVersion ==
    (pc = "resolved" /\ inString \in allPlugins) =>
        LET versions == {p \in allPlugins :
                            /\ Len(p) = Len(inString) + 1
                            /\ SubSeq(p, 1, Len(inString)) = inString
                            /\ IsDigit(p[Len(p)])}
        IN  /\ resolved.ok
            /\ versions = {} => resolved.node = inString
            /\ versions # {} =>
                  /\ resolved.node \in versions
                  /\ \A v \in versions :
                        Ord(v[Len(v)]) <= Ord(resolved.node[Len(v)])

\* The catalog also holds the candidate in another case, which the second
\* tier would return, and a longer name.
C8_Witness ==
    /\ pc = "resolved"
    /\ inString \in allPlugins
    /\ \E p \in allPlugins :
          /\ LowerStr(p) = LowerStr(inString)
          /\ StrLess(inString, p)
    /\ \E p \in allPlugins : Len(p) > Len(inString)
    /\ resolved = Resolved(inString)

(***************************************************************************)
(* C9: the host interpreter is called at most once, with the program       *)
(* parseCLI returned and after that program was printed; when parseCLI     *)
(* raises ValueError or KeyError the host is never called, and the script  *)
(* ends with a trace on standard error.                                    *)
(***************************************************************************)
C9_HostAfterPrint ==
    /\ Len(tclCalls) <= 1
    /\ tclCalls # <<>> =>
          /\ exc = "none"
          /\ parsedCmd # NoProgram
          /\ tclCalls[1] = parsedCmd
          /\ \E k \in 1..Len(stdout) : stdout[k].prog = parsedCmd
    /\ exc \in {"ValueError", "KeyError"} =>
          /\ tclCalls = <<>>
          /\ pc = "done" => stderr = <<exc>>

\* The host was called with a program of several statements.
C9_Witness ==
    /\ pc = "done"
    /\ Len(tclCalls) = 1
    /\ Len(Statements(tclCalls[1])) >= 2

(***************************************************************************)
(* C10: an -execute command stands for a capture statement at its own      *)
(* position, emitted in the loop, and for one execute statement among the  *)
(* last statements of the program, with the identifier of that capture and *)
(* with the frame range as given, or else the first and last knobs of the  *)
(* captured node; no execute statement is emitted inside the loop.         *)
(***************************************************************************)
C10_CaptureThenDeferred ==
    /\ pc = "loop" => \A j \in 1..Len(cmdStack) : cmdStack[j].op # "execute"
    /\ \A n \in ExecLineNos :
          Processed(n) =>
             cmdStack[StmtPos(n)] = CaptureStmt(cmdStack[StmtPos(n)].id)
    /\ parsedCmd # NoProgram =>
          LET stmts == Statements(parsedCmd)
              ne == Cardinality(ExecLineNos)
          IN  /\ Len(stmts) = StmtPos(Len(cli)) + ne
              /\ \A k \in 1..ne :
                    LET n == NthExec(k)
                        id == stmts[StmtPos(n)].id
                    IN  stmts[StmtPos(Len(cli)) + k] =
                           IF Len(cli[n]) >= 2
                           THEN ExecRangeStmt(id, cli[n][2])
                           ELSE ExecKnobStmt(id)

\* One -execute with a range and one without, and a later command between
\* the captures and the execute statements.
C10_Witness ==
    /\ parsedCmd # NoProgram
    /\ Len(cli) = 3
    /\ cli[1] = <<kwExecute, "1-10">>
    /\ cli[2] = <<kwExecute>>
    /\ Len(Statements(parsedCmd)) = 5
    /\ Statements(parsedCmd)[4].range = "1-10"
    /\ Statements(parsedCmd)[5].refs # <<>>

====
